---- MODULE Spec2Model ----
(***************************************************************************)
(* Model of the HireVox chat client: the streaming client sendChatMessage  *)
(* (src/src/lib/cookieUtils.ts) and the message timeline of DashboardPage  *)
(* (src/src/pages/dashboard/DashboardPage.tsx).                            *)
(*                                                                         *)
(* The wire is a sequence of bytes; every symbol stands for a run of       *)
(* bytes that the code treats as a unit:                                   *)
(*   "d" "p"   the two halves of the event prefix 'data: '                 *)
(*   "{" "}"   the braces of a JSON object                                 *)
(*   "a"       the member "content":"a" (one-byte character)               *)
(*   "e1" "e2" the two bytes of the member "content":"e", e a two-byte     *)
(*             character; decoded they are the one character "e"           *)
(*   "D"       the member "done":true                                      *)
(*   "_"       a blank                                                     *)
(*   "x"       any other character                                         *)
(*   "N"       the newline                                                 *)
(*   "?"       (text only) the replacement character U+FFFD                *)
(***************************************************************************)
EXTENDS Integers, Sequences, FiniteSets, TLC

\* ------------------------------------------------------------------ bounds
\* Largest number of lines of a modelled response body.
MaxLines == 2

\* ------------------------------------------------------- sequence helpers
Last(s) == s[Len(s)]

Front(s) == SubSeq(s, 1, Len(s) - 1)

Take(s, n) == SubSeq(s, 1, IF n < Len(s) THEN n ELSE Len(s))

\* ------------------------------------------------------------ the decoder
\* TextDecoder.decode(value, {stream: true}): complete characters are
\* emitted, the first byte of an unfinished two-byte character is held back
\* for the next call; a byte that cannot continue or start a character is
\* emitted as the replacement character.
RECURSIVE DecodeBytes(_, _)
DecodeBytes(held, bytes) ==
  IF bytes = <<>> THEN [out |-> <<>>, held |-> held]
  ELSE LET b == Head(bytes) IN
       IF held # <<>>
       THEN IF b = "e2"
            THEN LET r == DecodeBytes(<<>>, Tail(bytes))
                 IN  [out |-> <<"e">> \o r.out, held |-> r.held]
            ELSE LET r == DecodeBytes(<<>>, bytes)
                 IN  [out |-> <<"?">> \o r.out, held |-> r.held]
       ELSE IF b = "e1" THEN DecodeBytes(<<"e1">>, Tail(bytes))
            ELSE IF b = "e2"
                 THEN LET r == DecodeBytes(<<>>, Tail(bytes))
                      IN  [out |-> <<"?">> \o r.out, held |-> r.held]
                 ELSE LET r == DecodeBytes(<<>>, Tail(bytes))
                      IN  [out |-> <<b>> \o r.out, held |-> r.held]

\* A decoder that forgets the held byte between calls: decode(value) without
\* the stream option.
DecodeNoStream(held, bytes) ==
  LET r == DecodeBytes(<<>>, bytes)
  IN  [out |-> r.out \o (IF r.held # <<>> THEN <<"?">> ELSE <<>>), held |-> <<>>]

Decode(held, bytes) == DecodeBytes(held, bytes)

\* ------------------------------------------------------- string functions
\* String.prototype.split('\n'): the pieces between newlines, the last piece
\* included (it is empty when the text ends with a newline).
RECURSIVE SplitNL(_, _)
SplitNL(text, cur) ==
  IF text = <<>> THEN <<cur>>
  ELSE IF Head(text) = "N" THEN <<cur>> \o SplitNL(Tail(text), <<>>)
       ELSE SplitNL(Tail(text), Append(cur, Head(text)))

Split(text) == SplitNL(text, <<>>)

RECURSIVE TrimLeft(_)
TrimLeft(s) == IF s # <<>> /\ Head(s) \in {"_", "N"} THEN TrimLeft(Tail(s)) ELSE s

RECURSIVE TrimRight(_)
TrimRight(s) == IF s # <<>> /\ Last(s) \in {"_", "N"} THEN TrimRight(Front(s)) ELSE s

\* String.prototype.trim()
Trim(s) == TrimRight(TrimLeft(s))

\* line.startsWith('data: ')
StartsWithData(line) == Len(line) >= 2 /\ line[1] = "d" /\ line[2] = "p"

\* line.slice(6)
Slice6(line) == SubSeq(line, 3, Len(line))

\* JSON.parse of a payload: blanks around the value are ignored; the value
\* must be an object with an optional content member followed by an optional
\* done member.  ok = FALSE stands for the SyntaxError JSON.parse throws.
JSONParse(data) ==
  LET t == Trim(data) IN
  IF Len(t) >= 2 /\ Head(t) = "{" /\ Last(t) = "}"
  THEN LET body == SubSeq(t, 2, Len(t) - 1) IN
       IF body = <<>> THEN [ok |-> TRUE, content |-> <<>>, done |-> FALSE]
       ELSE IF body = <<"D">> THEN [ok |-> TRUE, content |-> <<>>, done |-> TRUE]
       ELSE IF Len(body) = 1 /\ body[1] \in {"a", "e"}
            THEN [ok |-> TRUE, content |-> body, done |-> FALSE]
       ELSE IF Len(body) = 2 /\ body[1] \in {"a", "e"} /\ body[2] = "D"
            THEN [ok |-> TRUE, content |-> <<body[1]>>, done |-> TRUE]
       ELSE [ok |-> FALSE, content |-> <<>>, done |-> FALSE]
  ELSE [ok |-> FALSE, content |-> <<>>, done |-> FALSE]

\* The frame handed to onChunk.
FrameOf(p) == [content |-> p.content, done |-> p.done]


\* --------------------------------------------------- the response bodies
\* The lines a modelled response body is made of (as bytes, no newline).
LineContentA == <<"d", "p", "{", "a", "}">>

LineContentE == <<"d", "p", "{", "e1", "e2", "}">>

LineDone == <<"d", "p", "{", "D", "}">>

LineContentDone == <<"d", "p", "{", "a", "D", "}">>

LineMalformed == <<"d", "p", "{", "a">>

LineBlankPayload == <<"d", "p", "_">>

LineOther == <<"x">>

LineEmpty == <<>>

LineKinds ==
  {LineContentA, LineContentE, LineDone, LineContentDone, LineMalformed,
   LineBlankPayload, LineOther, LineEmpty}

RECURSIVE JoinLines(_)
JoinLines(ls) ==
  IF ls = <<>> THEN <<>>
  ELSE IF Len(ls) = 1 THEN ls[1]
       ELSE ls[1] \o <<"N">> \o JoinLines(Tail(ls))

\* Every body of 1..MaxLines lines, the last line with or without its newline.
Wires ==
  { JoinLines(ls) \o (IF term THEN <<"N">> ELSE <<>>) :
      ls \in UNION { [1..k -> LineKinds] : k \in 1..MaxLines }, term \in BOOLEAN }

\* ------------------------------------------------- sendChatMessage: state
VARIABLES
  wire,            \* the bytes of the response body
  pos,             \* how many of them reader.read() has returned
  pc,              \* position in sendChatMessage
  response,        \* how fetch settled: "none" (pending), "ok", "network", "http", "nobody"
  readerAcquired,  \* response.body.getReader() has been called
  readerLocked,    \* the reader holds the lock of the body stream
  decoderHeld,     \* bytes the TextDecoder holds back
  buffer,          \* let buffer
  streamDone,      \* let streamDone
  delivered,       \* the frames onChunk has been called with, in call order
  warned,          \* console.warn('Failed to parse chunk:') has been called
  outcome,         \* how the promise will settle once finally has run
  cause,           \* what was thrown: "none", "network", "http", "nobody", "read", "parse"
  releasedBeforeSettle  \* the lock was free at the moment the promise settled

svars == <<wire, pos, pc, response, readerAcquired, readerLocked, decoderHeld, buffer,
           streamDone, delivered, warned, outcome, cause, releasedBeforeSettle>>

\* ---------------------------------------------------- DashboardPage: state
VARIABLES
  mounted,             \* the component's effects have run
  activeChatId,        \* useParams().id
  ui,                  \* React state of DashboardPage at the last render
  queue,               \* chunk updaters queued by setMessages since then
  conversationsFetchedRef,
  messagesFetchedRef,
  listFetch,           \* the mount effect's GET /conversations: "none", "pending", "ok", "failed"
  listRequests,        \* number of GET /conversations requests issued
  loads,               \* GET /conversations/{id} requests in flight, counted by id
  turns,               \* the turns started, in order
  nextId,              \* stands for generateUUID(): the next fresh identifier
  events,             \* navigations so far
  trail,               \* the routes the page has rendered at, in order (in no field of the code)
  toasts               \* the kinds of toast.error raised by the list and history loads

dvars == <<mounted, activeChatId, ui, queue, conversationsFetchedRef,
           messagesFetchedRef, listFetch, listRequests, loads, turns, nextId,
           events, trail, toasts>>

\* ------------------------------------------------------- credentials: state
VARIABLES
  crossOrigin,         \* the API origin differs from the page origin
  pageHttps,           \* window.location.protocol is 'https:'
  jar,                 \* document.cookie: the cookies in order, values as stored
  session,             \* access token of the identity provider's session
  written,             \* the cookie strings of the last publish (in no field of the code)
  signedOut,           \* a sign-out happened after the last publish (in no field of the code)
  request,             \* the headers attach built for the last outbound request
  publishes            \* publishes so far

avars == <<crossOrigin, pageHttps, jar, session, written, signedOut, request, publishes>>

\* ------------------------------------------------------- ChatHistory: state
VARIABLES
  conversation,        \* the conversation of one row of the sidebar
  chatTitle            \* what getChatTitle returned for it at the last render

tvars == <<conversation, chatTitle>>

\* --------------------------------------------------------- AuthGuard: state
VARIABLES
  loading,             \* loading of AuthProvider
  storage,             \* localStorage: the entries in key order
  verificationTimeout, \* useState(false) of AuthGuard
  timer,               \* the setTimeout of the effect is pending
  effectDeps,          \* [hasToken, session, loading] of the effect's last run
  screen               \* what AuthGuard returned at its last render

gvars == <<loading, storage, verificationTimeout, timer, effectDeps, screen>>

vars == <<svars, dvars, avars, tvars, gvars>>

\* No request has been built yet.
NoRequest == [kind |-> "none", authorization |-> <<>>, warned |-> FALSE]

\* The credential store before anything is published, on a same-origin page.
AuthIdle ==
  /\ crossOrigin = FALSE
  /\ pageHttps = FALSE
  /\ jar = <<>>
  /\ session = <<>>
  /\ written = <<>>
  /\ signedOut = FALSE
  /\ request = NoRequest
  /\ publishes = 0

\* A property of a conversation object that is undefined, null or a string.
Undefined == [kind |-> "undefined", text |-> <<>>]

Null == [kind |-> "null", text |-> <<>>]

Str(text) == [kind |-> "string", text |-> text]

\* No title has been rendered yet.
NotRendered == [rendered |-> FALSE, text |-> <<>>]

\* The sidebar before it has a row.
TitleIdle ==
  /\ conversation = [id |-> Undefined, session_id |-> Undefined, title |-> Undefined]
  /\ chatTitle = NotRendered

\* No effect of AuthGuard has run yet.
NoDeps == [ran |-> FALSE, hasToken |-> FALSE, session |-> <<>>, loading |-> FALSE]

\* AuthProvider and AuthGuard after construction, with an empty localStorage.
GuardIdle ==
  /\ loading = TRUE
  /\ storage = <<>>
  /\ verificationTimeout = FALSE
  /\ timer = FALSE
  /\ effectDeps = NoDeps
  /\ screen = "none"

\* The loop state of the line loops: what they have delivered and decided.
LoopState(del, sd, w) == [delivered |-> del, streamDone |-> sd, warned |-> w, threw |-> FALSE]

\* A loop body without the inner try/catch: the SyntaxError leaves the loop.
ProcessLineNoCatch(line, st) ==
  IF ~StartsWithData(line) THEN st
  ELSE LET data == Slice6(line) IN
       IF Trim(data) = <<>> THEN st
       ELSE LET p == JSONParse(data) IN
            IF ~p.ok THEN [st EXCEPT !.threw = TRUE]
            ELSE [st EXCEPT !.delivered = Append(@, FrameOf(p)),
                            !.streamDone = @ \/ p.done]

\* The body of both for loops: a line that starts with the prefix and has a
\* non-blank payload is parsed and handed to onChunk; a SyntaxError is caught
\* and logged.
ProcessLine(line, st) ==
  IF ~StartsWithData(line) THEN st
  ELSE LET data == Slice6(line) IN
       IF Trim(data) = <<>> THEN st
       ELSE LET p == JSONParse(data) IN
            IF ~p.ok THEN [st EXCEPT !.warned = TRUE]
            ELSE [st EXCEPT !.delivered = Append(@, FrameOf(p)),
                            !.streamDone = @ \/ p.done]

\* for (const line of lines) of the read loop: it breaks at a done frame.
RECURSIVE LoopLines(_, _)
LoopLines(lines, st) ==
  IF lines = <<>> \/ st.streamDone \/ st.threw THEN st
  ELSE LoopLines(Tail(lines), ProcessLine(Head(lines), st))

\* for (const line of lines) after the read loop: no break.
RECURSIVE DrainLines(_, _)
DrainLines(lines, st) ==
  IF lines = <<>> \/ st.threw THEN st
  ELSE DrainLines(Tail(lines), ProcessLine(Head(lines), st))

\* A client that drops what the buffer holds when the loop ends.
DrainNothing(buf, st) == st

\* "Process any remaining buffer after stream ends": if (buffer.trim()) ...
Drain(buf, st) ==
  IF Trim(buf) # <<>> THEN DrainLines(Split(buf), st) ELSE st

\* One pass of the while loop with a value of n bytes: decode, split, keep the
\* last piece as the buffer, process the complete lines.
ChunkStep(held, buf, bytes, st) ==
  LET dec == Decode(held, bytes) IN
  LET lines == Split(buf \o dec.out) IN
  [held |-> dec.held, buffer |-> Last(lines), st |-> LoopLines(Front(lines), st)]

StreamInit ==
  /\ wire \in Wires
  /\ pos = 0
  /\ pc = "fetch"
  /\ response = "none"
  /\ readerAcquired = FALSE
  /\ readerLocked = FALSE
  /\ decoderHeld = <<>>
  /\ buffer = <<>>
  /\ streamDone = FALSE
  /\ delivered = <<>>
  /\ warned = FALSE
  /\ outcome = "none"
  /\ cause = "none"
  /\ releasedBeforeSettle = FALSE

\* A status check that lets a non-2xx response through to the reader.
StatusCheckIgnoresStatus(res) == IF res \in {"ok", "http"} THEN "read" ELSE "rejected"

\* if (!response.ok) throw ...; if (!response.body) throw ...: where
\* sendChatMessage goes once fetch has settled with res ("network" is a
\* rejected fetch, whose throw the outer catch rethrows as well).
StatusCheck(res) == IF res = "ok" THEN "read" ELSE "rejected"

\* await fetch(...) settles; on the way to the read loop getReader() locks
\* the body.
FetchSettles(res) ==
  /\ pc = "fetch"
  /\ response' = res
  /\ pc' = StatusCheck(res)
  /\ readerAcquired' = (pc' = "read")
  /\ readerLocked' = (pc' = "read")
  /\ cause' = IF pc' = "rejected" THEN res ELSE cause
  /\ UNCHANGED <<wire, pos, decoderHeld, buffer, streamDone, delivered, warned,
                 outcome, releasedBeforeSettle>>
  /\ UNCHANGED <<dvars, avars, tvars, gvars>>

\* What follows the while loop: the drain, then the way to finally.
AfterLoop(buf, st) ==
  \E fin \in {Drain(buf, st)} :
    /\ delivered' = fin.delivered
    /\ streamDone' = fin.streamDone
    /\ warned' = fin.warned
    /\ pc' = "finally"
    /\ outcome' = IF fin.threw THEN "rejected" ELSE "resolved"
    /\ cause' = IF fin.threw THEN "parse" ELSE cause

\* await reader.read() resolves with {done: false, value} of n bytes.
ReadChunk(n) ==
  /\ pc = "read"
  /\ n \in 1..(Len(wire) - pos)
  /\ \E r \in {ChunkStep(decoderHeld, buffer, SubSeq(wire, pos + 1, pos + n),
                          LoopState(delivered, streamDone, warned))} :
         /\ pos' = pos + n
         /\ decoderHeld' = r.held
         /\ buffer' = r.buffer
         /\ IF r.st.threw
            THEN /\ delivered' = r.st.delivered
                 /\ streamDone' = r.st.streamDone
                 /\ warned' = r.st.warned
                 /\ pc' = "finally"
                 /\ outcome' = "rejected"
                 /\ cause' = "parse"
            ELSE IF r.st.streamDone
                 THEN AfterLoop(r.buffer, r.st)
                 ELSE /\ delivered' = r.st.delivered
                      /\ streamDone' = r.st.streamDone
                      /\ warned' = r.st.warned
                      /\ UNCHANGED <<pc, outcome, cause>>
  /\ UNCHANGED <<wire, response, readerAcquired, readerLocked, releasedBeforeSettle>>
  /\ UNCHANGED <<dvars, avars, tvars, gvars>>

\* await reader.read() resolves with {done: true}: the body has ended.
ReadEnd ==
  /\ pc = "read"
  /\ pos = Len(wire)
  /\ AfterLoop(buffer, LoopState(delivered, streamDone, warned))
  /\ UNCHANGED <<wire, pos, response, readerAcquired, readerLocked, decoderHeld,
                 buffer, releasedBeforeSettle>>
  /\ UNCHANGED <<dvars, avars, tvars, gvars>>

\* await reader.read() rejects: catch (streamError) rethrows.
ReadFail ==
  /\ pc = "read"
  /\ pc' = "finally"
  /\ outcome' = "rejected"
  /\ cause' = "read"
  /\ UNCHANGED <<wire, pos, response, readerAcquired, readerLocked, decoderHeld,
                 buffer, streamDone, delivered, warned, releasedBeforeSettle>>
  /\ UNCHANGED <<dvars, avars, tvars, gvars>>

\* A finally block that releases the lock on the success path only.
ReleaseOnSuccessOnly(locked, out) == IF out = "resolved" THEN FALSE ELSE locked

\* finally { reader.releaseLock() }: the lock after the block.
ReleaseLock(locked, out) == FALSE

\* finally { try { reader.releaseLock() } ... }
Finally ==
  /\ pc = "finally"
  /\ readerLocked' = ReleaseLock(readerLocked, outcome)
  /\ pc' = "settle"
  /\ UNCHANGED <<wire, pos, response, readerAcquired, decoderHeld, buffer,
                 streamDone, delivered, warned, outcome, cause, releasedBeforeSettle>>
  /\ UNCHANGED <<dvars, avars, tvars, gvars>>

\* The try statement completes (or its rethrow passes the outer catch): the
\* promise of sendChatMessage settles.
Settle ==
  /\ pc = "settle"
  /\ pc' = outcome
  /\ releasedBeforeSettle' = ~readerLocked
  /\ UNCHANGED <<wire, pos, response, readerAcquired, readerLocked, decoderHeld,
                 buffer, streamDone, delivered, warned, outcome, cause>>
  /\ UNCHANGED <<dvars, avars, tvars, gvars>>

\* =========================================================== DashboardPage
\* ui is the React state of the last render.  onChunk runs between renders: its
\* setMessages call queues an updater, and React applies the queued updaters in
\* call order, each to the result of the one before, when it renders next
\* (Render).  Every other step below is a task of the event loop that sets
\* state itself (a user event, a navigation with its effects, the continuation
\* of a settled await): its own updates go behind the queued ones and the
\* render that follows processes them all, so the step starts from Processed.

\* ------------------------------------------------------------------ bounds
\* User events that start something (a navigation, a submitted prompt) per run.
MaxEvents == 2

\* Frames with which the stream client calls back per turn.
MaxFrags == 2

\* ------------------------------------------------------------------- data
\* useParams().id is undefined without a route parameter; the ref starts null.
NoId == "undefined"

NullRef == "null"

ConvIds == {"A", "B"}

\* What GET /conversations/{id} holds for each conversation.
HistoryOf(id) ==
  IF id = "A"
  THEN << [role |-> "user", content |-> <<"q">>],
          [role |-> "assistant", content |-> <<"r">>] >>
  ELSE << [role |-> "user", content |-> <<"s">>] >>

\* What GET /conversations returns.
ServerList == <<"A", "B">>

\* The content of the k-th frame with content of a turn: a letter of its own.
\* <<>> is a frame without content (chunk.content || '').
Letters == <<"a", "b", "c", "d">>

Frags == { <<Letters[k]>> : k \in 1..Len(Letters) } \cup { <<>> }

\* ---------------------------------------------------------- state updaters
\* setMessages((prev) => [...prev, msg])
AppendMsg(prev, msg) == Append(prev, msg)

\* A chunk callback that overwrites the content with the latest fragment.
OverwriteChunk(prev, pid, frag) ==
  [i \in 1..Len(prev) |->
     IF prev[i].id = pid THEN [prev[i] EXCEPT !.content = frag] ELSE prev[i]]

\* setMessages((prev) => prev.map((msg) => msg.id === assistantMsgId
\*   ? { ...msg, content: msg.content + (chunk.content || '') } : msg))
AppendChunk(prev, pid, frag) ==
  [i \in 1..Len(prev) |->
     IF prev[i].id = pid THEN [prev[i] EXCEPT !.content = @ \o frag] ELSE prev[i]]

\* React processes the queued chunk updaters in call order.
RECURSIVE ApplyQueue(_, _)
ApplyQueue(msgs, q) ==
  IF q = <<>> THEN msgs
  ELSE ApplyQueue(AppendChunk(msgs, Head(q).pid, Head(q).frag), Tail(q))

\* A rollback that drops every assistant message.
RemoveAssistantMsgs(prev, pid) ==
  SelectSeq(prev, LAMBDA m : m.role # "assistant")

\* setMessages((prev) => prev.filter((msg) => msg.id !== assistantMsgId))
RemoveMsg(prev, pid) == SelectSeq(prev, LAMBDA m : m.id # pid)

\* A mapping that gives every loaded message the identifier of the first.
LoadedMessagesOneId(id, history) ==
  [i \in 1..Len(history) |->
     [id |-> <<id, 0>>, role |-> history[i].role,
      content |-> history[i].content, of |-> id]]

\* conversationResponse.conversation.map((msg, index) => ({id:
\* `${activeChatId}-${index}-${Date.now()}`, role, content, timestamp})).  The
\* identifier is the pair of conversation and index (the clock reading is
\* left out); of is not a field of the code: it records the conversation the
\* message belongs to.
LoadedMessages(id, history) ==
  [i \in 1..Len(history) |->
     [id |-> <<id, i - 1>>, role |-> history[i].role,
      content |-> history[i].content, of |-> id]]

\* A history load that keeps what the timeline held.
MergeTimeline(prev, loaded) == prev \o loaded

\* setMessages(loadedMessages): the timeline is replaced wholesale.
ReplaceTimeline(prev, loaded) == loaded

\* The timeline area of the render (lines 384-494).
View(st, id) ==
  IF id = NoId THEN "no-chat"
  ELSE IF st.loadingMessages THEN "loading"
  ELSE IF st.messages = <<>> THEN "empty"
  ELSE "list"

\* What ChatHistory renders from the props DashboardPage passes (loading,
\* error, conversations): the loading line, the error box, the line 'No
\* conversations yet', and one row per conversation.
ChatHistoryView(st) ==
  [loadingLine |-> st.loading,
   errorBox |-> st.error # "null",
   emptyLine |-> ~st.loading /\ st.error = "null" /\ st.conversations = <<>>,
   rows |-> IF ~st.loading /\ st.error = "null" THEN st.conversations ELSE <<>>]

\* The state a render gives once the queued updaters are processed.
Processed == [ui EXCEPT !.messages = ApplyQueue(@, queue)]

\* ----------------------------------------------------------------- effects
\* A load effect without its guard.
LoadEffectAlwaysRuns(ref, id) == TRUE

\* The synchronous part of the load effect (lines 90-137) for route id:
\* the guard on messagesFetchedRef, then the first statements of
\* loadConversationMessages up to its await.
LoadEffectRuns(ref, id) == ref # id

LoadEffectUi(st, ref, id) ==
  IF ~LoadEffectRuns(ref, id) THEN st
  ELSE IF id = NoId THEN [st EXCEPT !.messages = <<>>]
  ELSE [st EXCEPT !.loadingMessages = TRUE, !.error = "null"]

LoadEffectRef(ref, id) ==
  IF ~LoadEffectRuns(ref, id) THEN ref
  ELSE IF id = NoId THEN NullRef ELSE id

LoadEffectFetches(ref, id) == LoadEffectRuns(ref, id) /\ id # NoId

DashInit ==
  /\ mounted = FALSE
  /\ activeChatId = NoId
  /\ queue = <<>>
  /\ ui = [messages |-> <<>>, loadingMessages |-> FALSE, sending |-> FALSE,
           loading |-> TRUE, error |-> "null", conversations |-> <<>>,
           promptValue |-> <<>>]
  /\ conversationsFetchedRef = FALSE
  /\ messagesFetchedRef = NullRef
  /\ listFetch = "none"
  /\ listRequests = 0
  /\ loads = [id \in ConvIds |-> 0]
  /\ turns = <<>>
  /\ nextId = 1
  /\ events = 0
  /\ trail = <<>>
  /\ toasts = {}

\* A mount effect without its guard.
MountEffectAlwaysRuns(ref) == TRUE

\* The guard of the mount effect (lines 57-60): it runs unless the ref is set.
MountEffectRuns(ref) == ~ref

\* The first render at route id and the effects after it.  Under StrictMode
\* (strict) the effects run a second time on the spot; the refs survive.  The
\* mount effect (lines 55-87) issues GET /conversations unless its ref is set;
\* the load effect runs with its own guard.
Mount(id, strict) ==
  /\ ~mounted
  /\ mounted' = TRUE
  /\ activeChatId' = id
  /\ LET m1   == IF MountEffectRuns(conversationsFetchedRef) THEN 1 ELSE 0
         m2   == IF strict /\ MountEffectRuns(conversationsFetchedRef \/ m1 = 1)
                 THEN 1 ELSE 0
         ref1 == LoadEffectRef(messagesFetchedRef, id)
         ui1  == LoadEffectUi([Processed EXCEPT !.loading = TRUE, !.error = "null"],
                              messagesFetchedRef, id)
         n1   == IF LoadEffectFetches(messagesFetchedRef, id) THEN 1 ELSE 0
         ref2 == IF strict THEN LoadEffectRef(ref1, id) ELSE ref1
         ui2  == IF strict THEN LoadEffectUi(ui1, ref1, id) ELSE ui1
         n2   == IF strict /\ LoadEffectFetches(ref1, id) THEN 1 ELSE 0
     IN  /\ conversationsFetchedRef' = (conversationsFetchedRef \/ m1 + m2 > 0)
         /\ listFetch' = IF m1 + m2 > 0 THEN "pending" ELSE listFetch
         /\ listRequests' = listRequests + m1 + m2
         /\ messagesFetchedRef' = ref2
         /\ ui' = ui2
         /\ queue' = <<>>
         /\ loads' = IF n1 + n2 > 0 THEN [loads EXCEPT ![id] = @ + n1 + n2] ELSE loads
  /\ trail' = <<id>>
  /\ UNCHANGED <<turns, nextId, events, toasts>>
  /\ UNCHANGED <<svars, avars, tvars, gvars>>

\* navigate(`/chat/${id}`): the page renders with the new id and the load
\* effect runs.  handleNewChat also clears the prompt (clearPrompt).  A turn in
\* flight under another conversation is marked (switched).
Navigate(id, clearPrompt) ==
  /\ mounted
  /\ id # activeChatId
  /\ events < MaxEvents
  /\ trail' = Append(trail, id)
  /\ events' = events + 1
  /\ activeChatId' = id
  /\ messagesFetchedRef' = LoadEffectRef(messagesFetchedRef, id)
  /\ queue' = <<>>
  /\ ui' = LoadEffectUi(IF clearPrompt THEN [Processed EXCEPT !.promptValue = <<>>]
                        ELSE Processed,
                        messagesFetchedRef, id)
  /\ loads' = IF LoadEffectFetches(messagesFetchedRef, id)
              THEN [loads EXCEPT ![id] = @ + 1] ELSE loads
  /\ turns' = [i \in 1..Len(turns) |->
                 IF turns[i].phase \in {"stream", "refresh"} /\ turns[i].owner # id
                 THEN [turns[i] EXCEPT !.switched = TRUE] ELSE turns[i]]
  /\ UNCHANGED <<mounted, conversationsFetchedRef, listFetch, listRequests,
                 nextId, toasts>>
  /\ UNCHANGED <<svars, avars, tvars, gvars>>

\* handleChatSelect, or the route changes to one without id.
Select(id) == Navigate(id, FALSE)

\* handleNewChat: a fresh identifier becomes the route, the prompt is cleared.
NewChat(id) == id # NoId /\ Navigate(id, TRUE)

\* ------------------------------------- the response of GET /conversations/{id}
\* The request fails (network error, non-2xx status): axios rejects.
HistoryThrow ==
  [kind |-> "throw", wraps |-> 0, success |-> "missing",
   conversation |-> [kind |-> "missing", items |-> <<>>]]

\* response.data is null, or an array.
HistoryNull ==
  [kind |-> "null", wraps |-> 0, success |-> "missing",
   conversation |-> [kind |-> "missing", items |-> <<>>]]

HistoryArray ==
  [kind |-> "array", wraps |-> 0, success |-> "missing",
   conversation |-> [kind |-> "missing", items |-> <<>>]]

\* response.data is an object: an envelope under wraps nested data keys.  The
\* success key is missing or holds true or false; the conversation key is
\* missing or holds null or an array of messages.
HistoryEnvelopes(id) ==
  [kind : {"object"}, wraps : 0..3, success : {"true", "false", "missing"},
   conversation : { [kind |-> "missing", items |-> <<>>],
                    [kind |-> "null", items |-> <<>>],
                    [kind |-> "array", items |-> <<>>],
                    [kind |-> "array", items |-> HistoryOf(id)] }]

HistoryBodies(id) ==
  {HistoryThrow, HistoryNull, HistoryArray} \cup HistoryEnvelopes(id)

\* extractData: an array is returned as it is, an object with a data key
\* gives what is under the key, anything else is returned as it is.
ExtractData(data) ==
  IF data.kind = "array" THEN data
  ELSE IF data.kind = "object" /\ data.wraps > 0
       THEN [data EXCEPT !.wraps = @ - 1]
  ELSE data

\* 'success' in data && 'conversation' in data
HasEnvelopeKeys(data) ==
  /\ data.kind = "object"
  /\ data.wraps = 0
  /\ data.success # "missing"
  /\ data.conversation.kind # "missing"

\* getConversationMessages: the envelope found directly or one data key
\* deeper, null if there is none; a failed request is rethrown.
GetConversationMessages(body) ==
  IF body.kind = "throw" THEN [threw |-> TRUE, found |-> FALSE, data |-> body]
  ELSE LET data == ExtractData(body) IN
       IF data.kind \in {"object", "array"}
       THEN IF HasEnvelopeKeys(data)
            THEN [threw |-> FALSE, found |-> TRUE, data |-> data]
            ELSE IF data.kind = "object" /\ data.wraps > 0
                    /\ HasEnvelopeKeys([data EXCEPT !.wraps = @ - 1])
                 THEN [threw |-> FALSE, found |-> TRUE,
                       data |-> [data EXCEPT !.wraps = @ - 1]]
                 ELSE [threw |-> FALSE, found |-> FALSE, data |-> data]
       ELSE [threw |-> FALSE, found |-> FALSE, data |-> data]

\* A continuation that shows the messages of an envelope whatever its success
\* field says.
TimelineOfLoadIgnoresSuccess(id, r) ==
  IF ~r.threw /\ r.found /\ r.data.conversation.kind = "array"
  THEN LoadedMessages(id, r.data.conversation.items)
  ELSE <<>>

\* What the continuation of loadConversationMessages hands to setMessages:
\* if (conversationResponse && conversationResponse.success &&
\* conversationResponse.conversation) the mapped messages, else [] (also in
\* the catch block).
TimelineOfLoad(id, r) ==
  IF ~r.threw /\ r.found /\ r.data.success = "true"
     /\ r.data.conversation.kind = "array"
  THEN LoadedMessages(id, r.data.conversation.items)
  ELSE <<>>

\* What a response body makes of the load: whether the catch block runs, and
\* the array handed to setMessages.
LoadOutcome(id, body) ==
  LET r == GetConversationMessages(body)
  IN  [threw |-> r.threw, messages |-> TimelineOfLoad(id, r)]

\* The outcomes the response bodies give, by conversation.
LoadOutcomes ==
  [id \in ConvIds |-> { LoadOutcome(id, body) : body \in HistoryBodies(id) }]

\* The continuation of loadConversationMessages after the await: it writes
\* the timeline whatever the route is now; finally ends the loading state.
LoadContinues(id, out) ==
  /\ loads' = [loads EXCEPT ![id] = @ - 1]
  /\ queue' = <<>>
  /\ ui' = [Processed EXCEPT
       !.messages = ReplaceTimeline(@, out.messages),
       !.error = IF out.threw THEN "Failed to load conversation" ELSE @,
       !.loadingMessages = FALSE]
  /\ toasts' = IF out.threw THEN toasts \cup {"conversation"} ELSE toasts
  /\ UNCHANGED <<mounted, activeChatId, conversationsFetchedRef,
                 messagesFetchedRef, listFetch, listRequests, turns, nextId,
                 events, trail>>
  /\ UNCHANGED <<svars, avars, tvars, gvars>>

\* await getConversationMessages(id) settles for a request of conversation
\* id, with any of the response bodies.
LoadSettles(id) ==
  /\ loads[id] > 0
  /\ \E out \in LoadOutcomes[id] : LoadContinues(id, out)

\* A failure path that empties the list.
ListFailedClearsList(st) ==
  [st EXCEPT !.conversations = <<>>, !.error = "Failed to load conversations",
             !.loading = FALSE]

\* catch and finally of fetchConversations (lines 73-82): the error is stored,
\* loading ends, the list is not touched (the toast is recorded by ListSettles).
ListFailed(st) ==
  [st EXCEPT !.error = "Failed to load conversations", !.loading = FALSE]

\* await getConversations() of the mount effect settles.
ListSettles(ok) ==
  /\ listFetch = "pending"
  /\ listFetch' = IF ok THEN "ok" ELSE "failed"
  /\ queue' = <<>>
  /\ ui' = IF ok
           THEN [Processed EXCEPT !.conversations = ServerList, !.loading = FALSE]
           ELSE ListFailed(Processed)
  /\ toasts' = IF ok THEN toasts ELSE toasts \cup {"conversations"}
  /\ UNCHANGED <<mounted, activeChatId, conversationsFetchedRef,
                 messagesFetchedRef, listRequests, loads, turns, nextId, events, trail>>
  /\ UNCHANGED <<svars, avars, tvars, gvars>>

\* React renders: the queued updaters are processed.
Render ==
  /\ queue # <<>>
  /\ ui' = Processed
  /\ queue' = <<>>
  /\ UNCHANGED <<mounted, activeChatId, conversationsFetchedRef,
                 messagesFetchedRef, listFetch, listRequests, loads,
                 turns, nextId, events, toasts, trail>>
  /\ UNCHANGED <<svars, avars, tvars, gvars>>

\* ------------------------------------------------------------------- turns
\* The text a user types.
Prompts == { <<"h">> }

\* onChange of the prompt textarea (typing stops when no prompt can be
\* submitted any more).
TypePrompt(text) ==
  /\ mounted
  /\ activeChatId # NoId
  /\ ui.promptValue = <<>>
  /\ events < MaxEvents
  /\ queue' = <<>>
  /\ ui' = [Processed EXCEPT !.promptValue = text]
  /\ UNCHANGED <<mounted, activeChatId, conversationsFetchedRef,
                 messagesFetchedRef, listFetch, listRequests, loads,
                 turns, nextId, events, toasts, trail>>
  /\ UNCHANGED <<svars, avars, tvars, gvars>>

\* generateUUID(): the n-th identifier it returns.
UUID(n) == <<"uuid", n>>

\* A send control that stays enabled while a turn is in flight.
CanSubmitWhileSending ==
  /\ activeChatId # NoId
  /\ Trim(ui.promptValue) # <<>>

\* The submit button is enabled (line 521) and handlePromptSubmit passes its
\* own checks (lines 149-159).
CanSubmit ==
  /\ activeChatId # NoId
  /\ ~(ui.sending \/ Trim(ui.promptValue) = <<>>)

\* The record of a call of handlePromptSubmit that has returned: nothing of
\* it is kept once a later turn starts.
Retired ==
  [owner |-> NoId, uid |-> UUID(0), pid |-> UUID(0), phase |-> "retired",
   sent |-> <<>>, failure |-> "none", toasted |-> FALSE, switched |-> FALSE]

InFlight(t) == t.phase \in {"stream", "refresh"}

\* handlePromptSubmit up to await fetch: the user message and the assistant
\* placeholder are appended, the prompt is cleared, sending is set.
Submit ==
  /\ mounted
  /\ CanSubmit
  /\ events < MaxEvents
  /\ events' = events + 1
  /\ LET userMsg == [id |-> UUID(nextId), role |-> "user",
                     content |-> Trim(ui.promptValue), of |-> activeChatId]
         assistantMsg == [id |-> UUID(nextId + 1), role |-> "assistant",
                          content |-> <<>>, of |-> activeChatId]
     IN  /\ queue' = <<>>
         /\ ui' = [Processed EXCEPT
                !.messages = AppendMsg(AppendMsg(@, userMsg), assistantMsg),
                !.promptValue = <<>>,
                !.sending = TRUE]
         /\ turns' = Append(
                [i \in 1..Len(turns) |->
                   IF InFlight(turns[i]) THEN turns[i] ELSE Retired],
                [owner |-> activeChatId, uid |-> UUID(nextId), pid |-> UUID(nextId + 1),
                 phase |-> "stream", sent |-> <<>>, failure |-> "none",
                 toasted |-> FALSE, switched |-> FALSE])
  /\ nextId' = nextId + 2
  /\ UNCHANGED <<mounted, activeChatId, conversationsFetchedRef,
                 messagesFetchedRef, listFetch, listRequests, loads, toasts, trail>>
  /\ UNCHANGED <<svars, avars, tvars, gvars>>

\* sendChatMessage calls onChunk with a frame whose content is frag: the
\* updater is queued.  sent keeps the non-empty fragments; frames with content
\* are counted up to MaxFrags.  The updater of a frame without content maps
\* every message to itself (content + ''), so it is not kept in the queue.
TurnChunk(i, frag) ==
  /\ i \in 1..Len(turns)
  /\ turns[i].phase = "stream"
  /\ frag # <<>> => Len(turns[i].sent) < MaxFrags /\ frag = <<Letters[Len(turns[i].sent) + 1]>>
  /\ queue' = IF frag = <<>> THEN queue
              ELSE Append(queue, [pid |-> turns[i].pid, frag |-> frag])
  /\ turns' = [turns EXCEPT ![i].sent = IF frag = <<>> THEN @ ELSE Append(@, frag)]
  /\ UNCHANGED <<mounted, activeChatId, ui, conversationsFetchedRef,
                 messagesFetchedRef, listFetch, listRequests, loads,
                 nextId, events, toasts, trail>>
  /\ UNCHANGED <<svars, avars, tvars, gvars>>

\* A handler whose catch block is not followed by setSending(false).
CatchSendKeepsSending(st, pid) ==
  [st EXCEPT !.messages = RemoveMsg(@, pid)]

\* catch (err) and finally of handlePromptSubmit (lines 208-217): the rollback
\* of the placeholder and setSending(false) (the toast is recorded in the turn).
CatchSend(st, pid) ==
  [st EXCEPT !.messages = RemoveMsg(@, pid), !.sending = FALSE]

\* await sendChatMessage(...) resolves: getConversations() is called.
TurnStreamResolves(i) ==
  /\ i \in 1..Len(turns)
  /\ turns[i].phase = "stream"
  /\ turns' = [turns EXCEPT ![i].phase = "refresh"]
  /\ listRequests' = listRequests + 1
  /\ UNCHANGED <<mounted, activeChatId, ui, queue, conversationsFetchedRef,
                 messagesFetchedRef, listFetch, loads, nextId, events,
                 toasts, trail>>
  /\ UNCHANGED <<svars, avars, tvars, gvars>>

\* await sendChatMessage(...) rejects: "network" and "http" before any frame,
\* "read" at any point of the stream.
TurnStreamRejects(i, kind) ==
  /\ i \in 1..Len(turns)
  /\ turns[i].phase = "stream"
  /\ kind \in {"network", "http"} => turns[i].sent = <<>>
  /\ queue' = <<>>
  /\ turns' = [turns EXCEPT ![i].phase = "failed", ![i].failure = kind,
                             ![i].toasted = TRUE]
  /\ ui' = CatchSend(Processed, turns[i].pid)
  /\ UNCHANGED <<mounted, activeChatId, conversationsFetchedRef,
                 messagesFetchedRef, listFetch, listRequests, loads,
                 nextId, events, toasts, trail>>
  /\ UNCHANGED <<svars, avars, tvars, gvars>>

\* await getConversations() after the stream settles (lines 205-217): on
\* success the list is stored; a throw takes the same catch as a failed send.
TurnRefreshSettles(i, ok) ==
  /\ i \in 1..Len(turns)
  /\ turns[i].phase = "refresh"
  /\ queue' = <<>>
  /\ IF ok
     THEN /\ turns' = [turns EXCEPT ![i].phase = "done"]
          /\ ui' = [Processed EXCEPT !.conversations = ServerList, !.sending = FALSE]
     ELSE /\ turns' = [turns EXCEPT ![i].phase = "failed", ![i].failure = "refresh",
                                     ![i].toasted = TRUE]
          /\ ui' = CatchSend(Processed, turns[i].pid)
  /\ UNCHANGED <<mounted, activeChatId, conversationsFetchedRef,
                 messagesFetchedRef, listFetch, listRequests, loads, nextId,
                 events, toasts, trail>>
  /\ UNCHANGED <<svars, avars, tvars, gvars>>

\* The stream client is not running.
StreamIdle ==
  /\ wire = <<>>
  /\ pos = 0
  /\ pc = "idle"
  /\ response = "none"
  /\ readerAcquired = FALSE
  /\ readerLocked = FALSE
  /\ decoderHeld = <<>>
  /\ buffer = <<>>
  /\ streamDone = FALSE
  /\ delivered = <<>>
  /\ warned = FALSE
  /\ outcome = "none"
  /\ cause = "none"
  /\ releasedBeforeSettle = FALSE

DashNext ==
  \/ \E id \in ConvIds \cup {NoId}, strict \in BOOLEAN : Mount(id, strict)
  \/ \E id \in ConvIds \cup {NoId} : Select(id)
  \/ \E id \in ConvIds : NewChat(id)
  \/ \E id \in ConvIds : LoadSettles(id)
  \/ \E ok \in BOOLEAN : ListSettles(ok)
  \/ Render
  \/ \E text \in Prompts : TypePrompt(text)
  \/ Submit
  \/ \E i \in 1..Len(turns), frag \in Frags : TurnChunk(i, frag)
  \/ \E i \in 1..Len(turns) : TurnStreamResolves(i)
  \/ \E i \in 1..Len(turns), kind \in {"network", "http", "read"} : TurnStreamRejects(i, kind)
  \/ \E i \in 1..Len(turns), ok \in BOOLEAN : TurnRefreshSettles(i, ok)

\* The page before its first render, the stream client at rest.
DashStart == StreamIdle /\ DashInit /\ AuthIdle /\ TitleIdle /\ GuardIdle

SpecDash == DashStart /\ [][DashNext]_vars

StreamNext ==
  \/ \E res \in {"ok", "network", "http", "nobody"} : FetchSettles(res)
  \/ \E n \in 1..Len(wire) : ReadChunk(n)
  \/ ReadEnd
  \/ ReadFail
  \/ Finally
  \/ Settle

\* A call of sendChatMessage; the page is left as constructed.
StreamStart == StreamInit /\ DashInit /\ AuthIdle /\ TitleIdle /\ GuardIdle

SpecStream == StreamStart /\ [][StreamNext]_vars

\* ---------------------------------------------- what the wire says (stream)
\* The whole body as text and as lines, the unterminated last line included.
WireLines == Split(DecodeBytes(<<>>, wire).out)

\* A line that is a well-formed frame: prefix, non-blank payload, valid JSON.
IsFrameLine(line) ==
  StartsWithData(line) /\ Trim(Slice6(line)) # <<>> /\ JSONParse(Slice6(line)).ok

\* A line with the prefix whose payload is not valid JSON.
IsMalformedLine(line) ==
  StartsWithData(line) /\ Trim(Slice6(line)) # <<>> /\ ~JSONParse(Slice6(line)).ok

IsDoneLine(line) == IsFrameLine(line) /\ JSONParse(Slice6(line)).done

\* The frames on the wire up to and including the first done frame.
RECURSIVE FramesUpToDone(_)
FramesUpToDone(lines) ==
  IF lines = <<>> THEN <<>>
  ELSE IF IsFrameLine(Head(lines))
       THEN LET f == FrameOf(JSONParse(Slice6(Head(lines)))) IN
            IF f.done THEN <<f>> ELSE <<f>> \o FramesUpToDone(Tail(lines))
       ELSE FramesUpToDone(Tail(lines))

\* Index of the first done frame line (0: there is none).
FirstDone(lines) ==
  IF \E i \in 1..Len(lines) : IsDoneLine(lines[i])
  THEN CHOOSE i \in 1..Len(lines) :
         IsDoneLine(lines[i]) /\ \A j \in 1..(i - 1) : ~IsDoneLine(lines[j])
  ELSE 0

\* Nothing but blanks and newlines follows the first done frame's line.
NothingAfterDone(lines) ==
  FirstDone(lines) = 0
  \/ \A j \in (FirstDone(lines) + 1)..Len(lines) : Trim(lines[j]) = <<>>

\* What sendChatMessage delivers when the whole body arrives in one read.
SingleRead(w) ==
  LET r == ChunkStep(<<>>, <<>>, w, LoopState(<<>>, FALSE, FALSE))
  IN  Drain(r.buffer, r.st).delivered

\* ------------------------------------------------------------ claims C1-C6
\* C1: for every split of the response bytes into reads, the frames delivered
\* to onChunk are the frames delivered when the whole body comes in one read.
C1_ChunkingEquivalence == pc = "resolved" => delivered = SingleRead(wire)

\* Supporting C1: the equivalence does hold for every body in which nothing
\* follows the first done frame.
ChunkingEquivalenceWhenDoneIsLast ==
  pc = "resolved" /\ NothingAfterDone(WireLines) => delivered = SingleRead(wire)

\* C2: once a frame with done: true has been delivered to onChunk, no further
\* frame of the turn is delivered.
C2_NoFrameAfterDone ==
  \A i \in 1..Len(delivered) : delivered[i].done => i = Len(delivered)

\* C3: the well-formed frames up to and including the first done frame are
\* delivered exactly once and in wire order: at every moment the calls made so
\* far agree with the wire's frames position by position, and when the promise
\* resolves none of them is missing.
C3_InOrderExactlyOnce ==
  LET exp == FramesUpToDone(WireLines) IN
  /\ Take(delivered, Len(exp)) = Take(exp, Len(delivered))
  /\ pc = "resolved" => Len(delivered) >= Len(exp)

\* C3 witness: a read ended in the middle of a line after a frame had been
\* delivered, and more bytes are to come.
C3_Witness ==
  /\ pc = "read"
  /\ delivered # <<>>
  /\ buffer # <<>>
  /\ pos < Len(wire)
  /\ Len(FramesUpToDone(WireLines)) > Len(delivered)

\* C4: a 'data: ' line whose payload is not valid JSON is skipped (and
\* logged): the promise never rejects because of it, and the well-formed
\* frames after it, up to the first done frame, are still delivered.
C4_MalformedSkipped ==
  LET exp == FramesUpToDone(WireLines) IN
  /\ cause # "parse"
  /\ \A i \in 1..Len(WireLines) :
       ( /\ pc = "resolved"
         /\ IsMalformedLine(WireLines[i])
         /\ (FirstDone(WireLines) = 0 \/ i < FirstDone(WireLines)) )
       => /\ warned
          /\ Take(delivered, Len(exp)) = exp

\* C4 witness: the turn resolved, the first line was malformed and a frame
\* that follows it on the wire has been delivered.
C4_Witness ==
  /\ pc = "resolved"
  /\ IsMalformedLine(WireLines[1])
  /\ Len(WireLines) >= 2
  /\ IsFrameLine(WireLines[2])
  /\ delivered # <<>>
  /\ warned

\* C5: a non-2xx response makes sendChatMessage reject; onChunk is never
\* called and no reader is acquired.
C5_HttpErrorRejects ==
  response = "http" => pc = "rejected" /\ delivered = <<>> /\ ~readerAcquired

\* C5 witness: the fetch settled with a non-2xx status.
C5_Witness == response = "http" /\ pc = "rejected" /\ cause = "http"

\* C6: whenever the promise has settled after getReader(), the lock has been
\* released, and it was already released when the promise settled.
C6_ReaderReleased ==
  pc \in {"resolved", "rejected"} /\ readerAcquired
    => ~readerLocked /\ releasedBeforeSettle

\* C6 witness: a read failed after a frame was delivered; the promise has
\* rejected and the lock is free.
C6_Witness ==
  /\ pc = "rejected"
  /\ cause = "read"
  /\ readerAcquired
  /\ delivered # <<>>
  /\ ~readerLocked

\* ------------------------------------------- what the timeline holds (page)
\* The timeline msgs has a message with identifier id.
HasMsg(msgs, id) == \E k \in 1..Len(msgs) : msgs[k].id = id

\* The content of the message with identifier id.
ContentOf(msgs, id) == msgs[CHOOSE k \in 1..Len(msgs) : msgs[k].id = id].content

\* f1 + f2 + ... + fN
RECURSIVE Concat(_)
Concat(frags) == IF frags = <<>> THEN <<>> ELSE Head(frags) \o Concat(Tail(frags))

IsPrefix(a, b) == Len(a) <= Len(b) /\ a = Take(b, Len(a))

\* msgs with the message id taken out, everything else as it was.
RECURSIVE Without(_, _)
Without(msgs, id) ==
  IF msgs = <<>> THEN <<>>
  ELSE IF Head(msgs).id = id THEN Without(Tail(msgs), id)
       ELSE <<Head(msgs)>> \o Without(Tail(msgs), id)

\* The turns whose call of handlePromptSubmit is still on record.
LiveTurns == { i \in 1..Len(turns) : turns[i].phase # "retired" }

\* ----------------------------------------------------------- claims C7-C10
\* C7: as long as the placeholder of a turn is in the timeline, its content
\* once the queued updaters are processed is the concatenation, in frame
\* order, of the fragments delivered so far, and what the last render shows
\* is a prefix of it; so after the last frame and the next render the content
\* is f1 + ... + fN, wherever the renders fell between the callbacks.
C7_FragmentsConcatenated ==
  \A i \in LiveTurns :
    /\ HasMsg(Processed.messages, turns[i].pid)
         => ContentOf(Processed.messages, turns[i].pid) = Concat(turns[i].sent)
    /\ HasMsg(ui.messages, turns[i].pid)
         => IsPrefix(ContentOf(ui.messages, turns[i].pid), Concat(turns[i].sent))

\* C7 witness: the stream of a turn has ended after two fragments or more; the
\* first was rendered on its own and the last is still queued.
C7_Witness ==
  \E i \in LiveTurns :
    /\ turns[i].phase = "refresh"
    /\ Len(turns[i].sent) >= 2
    /\ Len(queue) = 1
    /\ HasMsg(ui.messages, turns[i].pid)
    /\ ContentOf(ui.messages, turns[i].pid) # <<>>

\* C8: once another conversation was selected while a turn was in flight, the
\* timeline shown for a conversation other than the turn's own never holds the
\* turn's placeholder (and so none of its streamed content), whether the turn
\* is still streaming, has completed or has failed.
C8_NoInsertIntoOtherConversation ==
  \A i \in LiveTurns :
    ( /\ turns[i].switched
      /\ activeChatId # turns[i].owner
      /\ View(ui, activeChatId) = "list" )
    => /\ ~HasMsg(ui.messages, turns[i].pid)
       /\ ~HasMsg(Processed.messages, turns[i].pid)

\* C8 witness: a turn started under A received a fragment and completed after
\* B was selected, and B's timeline is on display.
C8_Witness ==
  \E i \in LiveTurns :
    /\ turns[i].switched
    /\ turns[i].phase = "done"
    /\ turns[i].sent # <<>>
    /\ turns[i].owner = "A"
    /\ activeChatId = "B"
    /\ View(ui, activeChatId) = "list"

\* C9: whenever the message list of the active conversation is on display
\* (loading indicator off), every message in it was loaded for or sent under
\* the active conversation.
C9_NoCrossConversationTimeline ==
  View(ui, activeChatId) = "list"
    => \A k \in 1..Len(ui.messages) : ui.messages[k].of = activeChatId

\* C10: the step in which a turn fails while its stream is open (non-2xx
\* status, network failure, read failure) leaves the timeline as it was with
\* the placeholder taken out: the turn's user message, if the timeline held
\* it, is still there, every other message is unchanged, and the error toast
\* is raised.
C10_FailureRollsBack ==
  [][ \A i \in 1..Len(turns) :
        (turns[i].phase = "stream" /\ turns'[i].phase = "failed")
        => /\ ui'.messages = Without(Processed.messages, turns[i].pid)
           /\ ~HasMsg(ui'.messages, turns[i].pid)
           /\ HasMsg(Processed.messages, turns[i].uid)
                => HasMsg(ui'.messages, turns[i].uid)
           /\ turns'[i].toasted ]_vars

\* C10 witness: a read failed after a fragment had been appended; the
\* placeholder is gone, the user message and a loaded assistant message are
\* in the timeline, and the toast was raised.
C10_Witness ==
  \E i \in LiveTurns :
    /\ turns[i].phase = "failed"
    /\ turns[i].failure = "read"
    /\ turns[i].sent # <<>>
    /\ turns[i].toasted
    /\ ~HasMsg(ui.messages, turns[i].pid)
    /\ HasMsg(ui.messages, turns[i].uid)
    /\ \E k \in 1..Len(ui.messages) :
         ui.messages[k].role = "assistant" /\ ui.messages[k].id # turns[i].pid

\* ---------------------------------------------------------- claims C11-C15
\* C11: the step that ends a turn whose stream has resolved, whatever the
\* directory refresh answers, ends it in success: the turn is done, no
\* send-failure toast is raised for it, and the timeline (the placeholder with
\* its streamed content included) is what it was.
C11_StreamSuccessIsTurnSuccess ==
  [][ \A i \in 1..Len(turns) :
        (turns[i].phase = "refresh" /\ turns'[i].phase # "refresh")
        => /\ turns'[i].phase = "done"
           /\ ~turns'[i].toasted
           /\ ui'.messages = Processed.messages ]_vars

\* C12: when the page mounts at a conversation, the load effect starts one
\* history fetch for it, also when the effect runs twice in a row with that id
\* (StrictMode); and when a conversation is selected coming from the route
\* without id, a fetch starts for it, whether or not it was fetched before.
C12_GuardOncePerKeyAndAgainAfterReset ==
  [][ \A id \in ConvIds :
        /\ (~mounted /\ mounted' /\ activeChatId' = id)
             => loads'[id] = loads[id] + 1
        /\ (mounted /\ activeChatId = NoId /\ activeChatId' = id)
             => loads'[id] = loads[id] + 1 ]_vars

\* C12 witness: A was open, the selection was reset to no id, A was selected
\* again and its second fetch has started.
C12_Witness ==
  /\ trail = <<"A", NoId, "A">>
  /\ messagesFetchedRef = "A"
  /\ loads["A"] >= 1

\* C13: as long as the selection has not been reset to the route without id,
\* no conversation has more than one history fetch in flight, whatever other
\* conversations were selected in between.
C13_OneFetchInFlightPerKey ==
  (\A k \in 1..Len(trail) : trail[k] # NoId)
    => \A id \in ConvIds : loads[id] <= 1

\* C14: a step issues a GET /conversations request only in two cases, and
\* then exactly one: the mount (also when the mount effect runs twice), and the
\* step in which the stream of a turn resolves.  No other step issues one, the
\* failure of a send included.
C14_ListRequestedOnMountAndAfterSuccess ==
  [][ listRequests' - listRequests =
        (IF ~mounted /\ mounted' THEN 1 ELSE 0)
        + Cardinality({ i \in 1..Len(turns) :
                          turns[i].phase = "stream" /\ turns'[i].phase = "refresh" })
    ]_vars

\* C14 witness: after the mount a first send failed and the stream of a second
\* has resolved: two requests have been issued.
C14_Witness ==
  /\ Len(turns) = 2
  /\ turns[2].phase = "refresh"
  /\ listRequests = 2

\* C15: the step in which a conversation-list fetch fails, be it the fetch of
\* the mount effect or the refresh after a send, leaves the conversation list
\* as it was and raises an error toast.
C15_FailedListFetchKeepsList ==
  [][ /\ (listFetch = "pending" /\ listFetch' = "failed")
           => /\ ui'.conversations = ui.conversations
              /\ "conversations" \in toasts'
      /\ \A i \in 1..Len(turns) :
           (turns[i].phase = "refresh" /\ turns'[i].phase = "failed")
           => /\ ui'.conversations = ui.conversations
              /\ turns'[i].toasted ]_vars

\* C15 witness: the list had been loaded by the refresh of an earlier send;
\* the fetch of the mount effect and the refresh of a later send have both
\* failed, and the list is still there.
C15_Witness ==
  /\ listFetch = "failed"
  /\ "conversations" \in toasts
  /\ \E i \in LiveTurns : turns[i].failure = "refresh"
  /\ ui.conversations = ServerList

\* ============================================================= credentials
\* The access token is published into two cookies (LoginPage after passcode
\* verification, AuthProvider on session load and auth-state change) and
\* attached as a bearer header (the request interceptor of axiosInstance and
\* the header construction of sendChatMessage).  A character of a token is
\* "x" or "y" (unreserved) or "=" (reserved); "%3D" is the escape of "=",
\* kept as one symbol.  The deployment has an absolute API URL.

\* ------------------------------------------------------------------ bounds
\* Publishes per run.
MaxPublishes == 2

\* ------------------------------------------------------------------- data
NoToken == <<>>

\* The access tokens the identity provider hands out.
Tokens == { <<"x">>, <<"y", "=">> }

\* 'auth_token', `sb-${projectRef}-auth-token`, and a cookie of another kind.
AuthTokenName == "auth_token"

SbTokenName == "sb-ref-auth-token"

OtherName == "other"

\* setCookie called without its options argument.
NoOptions == [secure |-> "unset", sameSite |-> "unset"]

\* ------------------------------------------------------------- conversions
\* An encoding that leaves the value as it is.
EncodeNothing(v) == v

\* encodeURIComponent on the token alphabet.
EncodeURIComponent(v) ==
  [k \in 1..Len(v) |-> IF v[k] = "=" THEN "%3D" ELSE v[k]]

\* decodeURIComponent on the token alphabet.
DecodeURIComponent(v) ==
  [k \in 1..Len(v) |-> IF v[k] = "%3D" THEN "=" ELSE v[k]]

\* const [name, value] = trimmed.split('='): the value ends at the next '='.
RECURSIVE UpToEquals(_)
UpToEquals(v) ==
  IF v = <<>> \/ Head(v) = "=" THEN <<>> ELSE <<Head(v)>> \o UpToEquals(Tail(v))

\* name.startsWith('sb-') && (name.includes('-auth-token') ||
\* name.includes('access_token'))
IsSbTokenName(name) == name = SbTokenName

\* setCookie (lines 85-142): the cookie string it assigns to document.cookie.
\* shouldUseSecure is options?.secure ?? (options?.sameSite === 'none' &&
\* isHttps) ?? (isCrossOrigin && isHttps): the second operand is a boolean,
\* never nullish, so the third is never taken.
SetCookie(name, value, options) ==
  LET isCrossOrigin == crossOrigin
      isHttps == pageHttps
      shouldUseSecure ==
        IF options.secure # "unset" THEN options.secure = "true"
        ELSE (options.sameSite = "none" /\ isHttps)
      sameSiteValue ==
        IF options.sameSite # "unset" THEN options.sameSite
        ELSE IF isCrossOrigin THEN (IF isHttps THEN "none" ELSE "lax")
        ELSE "lax"
  IN  [name |-> name, value |-> EncodeURIComponent(value),
       secure |-> shouldUseSecure, sameSite |-> sameSiteValue]

\* document.cookie = cookieString: a cookie the browser takes replaces the one
\* of the same name in place or goes last; one it refuses changes nothing.
Store(cookies, c, accepted) ==
  IF ~accepted THEN cookies
  ELSE IF \E k \in 1..Len(cookies) : cookies[k].name = c.name
       THEN [k \in 1..Len(cookies) |->
               IF cookies[k].name = c.name
               THEN [name |-> c.name, value |-> c.value] ELSE cookies[k]]
       ELSE Append(cookies, [name |-> c.name, value |-> c.value])

\* The options AuthProvider passes (part_004, lines 59-62 and 70-73).
ProviderOptions ==
  [secure |-> IF crossOrigin \/ pageHttps THEN "true" ELSE "false",
   sameSite |-> IF crossOrigin THEN "none" ELSE "lax"]

\* A publish of token t: LoginPage after verifyOtp ("login", setCookie without
\* options) or setAuthTokenCookie of AuthProvider ("provider").  The provider
\* cookie is written first, the generic one second; the browser takes or
\* refuses each.
Publish(by, t, acc1, acc2) ==
  /\ publishes < MaxPublishes
  /\ publishes' = publishes + 1
  /\ LET options == IF by = "login" THEN NoOptions ELSE ProviderOptions
         c1 == SetCookie(SbTokenName, t, options)
         c2 == SetCookie(AuthTokenName, t, options)
     IN  /\ jar' = Store(Store(jar, c1, acc1), c2, acc2)
         /\ written' = << [by |-> by, token |-> t, cookie |-> c1, accepted |-> acc1],
                          [by |-> by, token |-> t, cookie |-> c2, accepted |-> acc2] >>
  /\ session' = t
  /\ signedOut' = FALSE
  /\ UNCHANGED <<crossOrigin, pageHttps, request>>
  /\ UNCHANGED <<svars, dvars, tvars, gvars>>

\* handleLogout: supabase.auth.signOut(); the auth-state listener of
\* AuthProvider gets a null session and stores it.  No cookie is written.
SignOut ==
  /\ session # NoToken
  /\ session' = NoToken
  /\ signedOut' = TRUE
  /\ UNCHANGED <<crossOrigin, pageHttps, jar, written, request, publishes>>
  /\ UNCHANGED <<svars, dvars, tvars, gvars>>

\* The user or the browser clears one cookie.
ClearCookie(name) ==
  /\ \E k \in 1..Len(jar) : jar[k].name = name
  /\ jar' = SelectSeq(jar, LAMBDA c : c.name # name)
  /\ UNCHANGED <<crossOrigin, pageHttps, session, written, signedOut, request,
                 publishes>>
  /\ UNCHANGED <<svars, dvars, tvars, gvars>>

\* ------------------------------------------------------------------ attach
\* document.cookie.match(/(?:^|;\s*)auth_token=([^;]*)/): the stored value of
\* the cookie named auth_token, <<>> without a match.
AuthTokenMatch(cookies) ==
  IF \E k \in 1..Len(cookies) : cookies[k].name = AuthTokenName
  THEN cookies[CHOOSE k \in 1..Len(cookies) : cookies[k].name = AuthTokenName].value
  ELSE <<>>

\* The fallback loop over document.cookie.split(';'): the first cookie with a
\* provider-pattern name and a non-empty value, <<>> if there is none.
RECURSIVE SbTokenLoop(_)
SbTokenLoop(cookies) ==
  IF cookies = <<>> THEN <<>>
  ELSE LET value == UpToEquals(Head(cookies).value) IN
       IF value # <<>> /\ IsSbTokenName(Head(cookies).name)
       THEN DecodeURIComponent(value)
       ELSE SbTokenLoop(Tail(cookies))

\* An attach that looks at the provider-pattern cookie first.
AuthTokenSbFirst(cookies) ==
  IF SbTokenLoop(cookies) # <<>> THEN SbTokenLoop(cookies)
  ELSE DecodeURIComponent(AuthTokenMatch(cookies))

\* authToken of both attach sites: auth_token if it matched with a value, the
\* fallback loop otherwise.
AuthToken(cookies) ==
  IF AuthTokenMatch(cookies) # <<>>
  THEN DecodeURIComponent(AuthTokenMatch(cookies))
  ELSE SbTokenLoop(cookies)

\* The request interceptor (axiosInstance.ts:16-70, kind "axios") and the
\* header construction of sendChatMessage (cookieUtils.ts:556-590, kind
\* "stream").  authorization is the token after 'Bearer ', <<>> when the header
\* is not set.  With an empty document.cookie the whole block is skipped; only
\* the interceptor has a console.warn.
AttachHeaders(kind, cookies) ==
  IF cookies = <<>>
  THEN [kind |-> kind, authorization |-> <<>>, warned |-> FALSE]
  ELSE [kind |-> kind, authorization |-> AuthToken(cookies),
        warned |-> (kind = "axios" /\ AuthToken(cookies) = <<>>)]

\* An outbound request is built.
Attach(kind) ==
  /\ request' = AttachHeaders(kind, jar)
  /\ UNCHANGED <<crossOrigin, pageHttps, jar, session, written, signedOut,
                 publishes>>
  /\ UNCHANGED <<svars, dvars, tvars, gvars>>

\* A deployment (origins, protocol) and a cookie jar that is empty or holds a
\* cookie of another kind; nobody is signed in.
AuthInit ==
  /\ crossOrigin \in BOOLEAN
  /\ pageHttps \in BOOLEAN
  /\ jar \in { <<>>, <<[name |-> OtherName, value |-> <<"x">>]>> }
  /\ session = NoToken
  /\ written = <<>>
  /\ signedOut = FALSE
  /\ request = NoRequest
  /\ publishes = 0

AuthNext ==
  \/ \E by \in {"login", "provider"}, t \in Tokens, acc1 \in BOOLEAN, acc2 \in BOOLEAN :
       Publish(by, t, acc1, acc2)
  \/ SignOut
  \/ \E name \in {AuthTokenName, SbTokenName, OtherName} : ClearCookie(name)
  \/ \E kind \in {"axios", "stream"} : Attach(kind)

\* The credential store; the stream client and the page are at rest.
AuthStart == AuthInit /\ StreamIdle /\ DashInit /\ TitleIdle /\ GuardIdle

SpecAuth == AuthStart /\ [][AuthNext]_vars

\* ----------------------------------------- what the cookie jar holds (auth)
HasCookie(cookies, name) == \E k \in 1..Len(cookies) : cookies[k].name = name

\* No cookie of the jar carries a credential token.
NoTokenIn(cookies) ==
  ~HasCookie(cookies, AuthTokenName) /\ ~HasCookie(cookies, SbTokenName)

AttachKinds == {"axios", "stream"}

\* The browser took both cookies of the last publish.
LastPublishAccepted ==
  written # <<>> /\ written[1].accepted /\ written[2].accepted

\* A step that builds the headers of a request: of the credential steps it is
\* the one that leaves the jar, the session and the publish count alone.
AttachStep ==
  jar' = jar /\ session' = session /\ publishes' = publishes /\ request' # request

\* ---------------------------------------------------------- claims C16-C20
\* C16: a request built while no cookie carries a credential token, the empty
\* jar included, has no Authorization header, and a warning is logged for it.
C16_NoTokenNoHeaderAndWarning ==
  [][ (AttachStep /\ NoTokenIn(jar))
        => /\ request'.authorization = <<>>
           /\ request'.warned ]_vars

\* C17: while the cookies of the most recent publish, both taken by the
\* browser, are in the jar, both attach sites set Authorization to 'Bearer '
\* and exactly the token of that publish; and whenever the jar holds an
\* auth_token cookie, its token is the one attached, whatever the
\* provider-pattern cookie holds.
C17_LastPublishedTokenAttached ==
  \A kind \in AttachKinds :
    /\ ( /\ LastPublishAccepted
         /\ HasCookie(jar, AuthTokenName)
         /\ HasCookie(jar, SbTokenName) )
       => AttachHeaders(kind, jar).authorization = written[1].token
    /\ HasCookie(jar, AuthTokenName)
       => AttachHeaders(kind, jar).authorization
            = DecodeURIComponent(AuthTokenMatch(jar))

\* C17 witness: a second publish, of the token with a reserved character, was
\* taken by the browser and a request built after it carries that token.
C17_Witness ==
  /\ publishes = 2
  /\ LastPublishAccepted
  /\ written[1].token = <<"y", "=">>
  /\ HasCookie(jar, AuthTokenName)
  /\ HasCookie(jar, SbTokenName)
  /\ request.kind = "axios"
  /\ request.authorization = <<"y", "=">>

\* C18: a publish of t writes t under the provider-pattern name and under
\* auth_token; when the browser took both and exactly one of them has been
\* cleared since, both attach sites still set Authorization to 'Bearer ' + t.
C18_OneCookieClearedStillAttached ==
  /\ written # <<>>
       => /\ written[1].cookie.name = SbTokenName
          /\ written[2].cookie.name = AuthTokenName
          /\ DecodeURIComponent(written[1].cookie.value) = written[1].token
          /\ DecodeURIComponent(written[2].cookie.value) = written[1].token
  /\ ( /\ LastPublishAccepted
       /\ HasCookie(jar, AuthTokenName) # HasCookie(jar, SbTokenName) )
     => \A kind \in AttachKinds :
          AttachHeaders(kind, jar).authorization = written[1].token

\* C18 witness: the token with a reserved character was published, auth_token
\* was cleared, and a request built from the provider-pattern cookie carries
\* the token.
C18_Witness ==
  /\ LastPublishAccepted
  /\ written[1].token = <<"y", "=">>
  /\ ~HasCookie(jar, AuthTokenName)
  /\ HasCookie(jar, SbTokenName)
  /\ request.kind = "stream"
  /\ request.authorization = <<"y", "=">>

\* C19: every cookie string of a publish, from LoginPage or from AuthProvider,
\* has samesite=none and the secure attribute when the API origin differs
\* from the page origin, and samesite=lax when the origins are equal.
C19_CrossOriginCookieAttributes ==
  \A k \in 1..Len(written) :
    IF crossOrigin
    THEN written[k].cookie.sameSite = "none" /\ written[k].cookie.secure
    ELSE written[k].cookie.sameSite = "lax"

\* C20: after a sign-out and until the next publish, attach finds no token: no
\* request built in such a state carries a bearer token.
C20_SignOutDestroysCredential ==
  [][ (AttachStep /\ signedOut) => request'.authorization = <<>> ]_vars

\* ======================================================= setCookie (strings)
\* C28: no cookie string written by setCookie, whatever options its caller
\* passed and whatever the page's protocol and origin are, has samesite=none
\* without the secure attribute.
C28_NoSameSiteNoneWithoutSecure ==
  \A k \in 1..Len(written) :
    written[k].cookie.sameSite = "none" => written[k].cookie.secure

\* ================================================ sendChatMessage (the end)
\* C26: when read() signals end-of-stream while the buffer holds a well-formed
\* frame (a last line without newline), that step delivers the frame to
\* onChunk, once and after the frames delivered before, and leads to a
\* resolved promise; between that step and the settling of the promise
\* nothing more is delivered.
C26_ResidualFrameDelivered ==
  [][ /\ (ReadEnd /\ IsFrameLine(buffer))
        => /\ delivered' = Append(delivered, FrameOf(JSONParse(Slice6(buffer))))
           /\ outcome' = "resolved"
      /\ pc \in {"finally", "settle"} => delivered' = delivered
    ]_vars

\* C26 witness: the promise has resolved on end-of-stream for a body whose
\* second line is a frame without newline, and that frame is the second and
\* last one delivered.
C26_Witness ==
  /\ pc = "resolved"
  /\ ~streamDone
  /\ pos = Len(wire)
  /\ IsFrameLine(buffer)
  /\ Last(wire) # "N"
  /\ Len(delivered) = 2
  /\ delivered[2] = FrameOf(JSONParse(Slice6(buffer)))

\* ==================================== one turn: the page over the client
\* handlePromptSubmit calls sendChatMessage and waits for its promise; the
\* frames the client hands to onChunk are the updaters the page queues.
\* The bodies the server answers the turn with: a done frame with a frame
\* behind it, two frames without a done frame (the last without newline), a
\* malformed line before a frame that carries content and done.
TurnWires ==
  { JoinLines(<<LineContentA, LineDone, LineContentA>>) \o <<"N">>,
    JoinLines(<<LineContentA, LineContentE>>),
    JoinLines(<<LineMalformed, LineContentDone>>) \o <<"N">> }

\* The client before it is called.
TurnStreamInit ==
  /\ wire \in TurnWires
  /\ pos = 0
  /\ pc = "idle"
  /\ response = "none"
  /\ readerAcquired = FALSE
  /\ readerLocked = FALSE
  /\ decoderHeld = <<>>
  /\ buffer = <<>>
  /\ streamDone = FALSE
  /\ delivered = <<>>
  /\ warned = FALSE
  /\ outcome = "none"
  /\ cause = "none"
  /\ releasedBeforeSettle = FALSE

\* chunk.content || '' of the frames handed to onChunk, the empty ones (whose
\* updater changes nothing) left out.
RECURSIVE Fragments(_)
Fragments(frames) ==
  IF frames = <<>> THEN <<>>
  ELSE IF Head(frames).content = <<>> THEN Fragments(Tail(frames))
       ELSE <<Head(frames).content>> \o Fragments(Tail(frames))

\* await sendChatMessage(...): the client issues its fetch.
SendChatMessageCalled ==
  /\ pc = "idle"
  /\ Len(turns) = 1
  /\ turns[1].phase = "stream"
  /\ pc' = "fetch"
  /\ UNCHANGED <<wire, pos, response, readerAcquired, readerLocked, decoderHeld,
                 buffer, streamDone, delivered, warned, outcome, cause,
                 releasedBeforeSettle>>
  /\ UNCHANGED <<dvars, avars, tvars, gvars>>

\* The callback of the turn runs for the next frame the client delivered:
\* its updater is queued.
OnChunk ==
  /\ Len(turns) = 1
  /\ turns[1].phase = "stream"
  /\ Len(turns[1].sent) < Len(Fragments(delivered))
  /\ LET frag == Fragments(delivered)[Len(turns[1].sent) + 1]
     IN  /\ queue' = Append(queue, [pid |-> turns[1].pid, frag |-> frag])
         /\ turns' = [turns EXCEPT ![1].sent = Append(@, frag)]
  /\ UNCHANGED <<mounted, activeChatId, ui, conversationsFetchedRef,
                 messagesFetchedRef, listFetch, listRequests, loads,
                 nextId, events, toasts, trail>>
  /\ UNCHANGED <<svars, avars, tvars, gvars>>

\* The callback has run for every frame delivered.
AllForwarded == Len(turns[1].sent) = Len(Fragments(delivered))

\* The promise of the client has settled and the handler goes on.
TurnPromiseResolved ==
  /\ pc = "resolved"
  /\ Len(turns) = 1
  /\ AllForwarded
  /\ TurnStreamResolves(1)

TurnPromiseRejected ==
  /\ pc = "rejected"
  /\ Len(turns) = 1
  /\ AllForwarded
  /\ TurnStreamRejects(1, cause)

\* The only turn of the page.
FirstSubmit == turns = <<>> /\ Submit

\* reader.read() settles: with bytes, with done, or with an error.
ReadSettles ==
  \/ ReadFail
  \/ ReadEnd
  \/ \E n \in 1..Len(wire) : ReadChunk(n)

TurnNext ==
  \/ \E id \in ConvIds, strict \in BOOLEAN : Mount(id, strict)
  \/ \E id \in ConvIds : LoadSettles(id)
  \/ \E ok \in BOOLEAN : ListSettles(ok)
  \/ Render
  \/ \E text \in Prompts : TypePrompt(text)
  \/ FirstSubmit
  \/ SendChatMessageCalled
  \/ \E res \in {"ok", "network", "http", "nobody"} : FetchSettles(res)
  \/ ReadSettles
  \/ Finally
  \/ Settle
  \/ OnChunk
  \/ TurnPromiseResolved
  \/ TurnPromiseRejected
  \/ \E ok \in BOOLEAN : TurnRefreshSettles(1, ok)

\* The page before its first render, the client before its call.
TurnStart == TurnStreamInit /\ DashInit /\ AuthIdle /\ TitleIdle /\ GuardIdle

SpecTurn == TurnStart /\ [][TurnNext]_vars

\* Every pending request and read returns or fails, and code that can run
\* does run; the user is not obliged to do anything.
FairSpecTurn ==
  /\ SpecTurn
  /\ WF_vars(SendChatMessageCalled)
  /\ WF_vars(\E res \in {"ok", "network", "http", "nobody"} : FetchSettles(res))
  /\ WF_vars(ReadSettles)
  /\ WF_vars(Finally)
  /\ WF_vars(Settle)
  /\ WF_vars(OnChunk)
  /\ WF_vars(TurnPromiseResolved)
  /\ WF_vars(TurnPromiseRejected)
  /\ WF_vars(\E ok \in BOOLEAN : TurnRefreshSettles(1, ok))

\* C27: a turn that has started (sending is set) leaves the Sending state:
\* sending becomes false again, which re-enables the send control, however the
\* stream ends; and once a done frame has been handed to onChunk, no read
\* returns anything more of the body.
C27_TurnLeavesSending ==
  /\ ui.sending ~> ~ui.sending
  /\ [][ (\E k \in 1..Len(delivered) : delivered[k].done) => pos' = pos ]_vars

\* C27 witness: the turn is over and sending is false again after a stream
\* that ended with a done frame, bytes of the body still unread.
C27_Witness ==
  /\ Len(turns) = 1
  /\ turns[1].phase = "done"
  /\ ~ui.sending
  /\ streamDone
  /\ pos < Len(wire)
  /\ pc = "resolved"

\* ================================================= DashboardPage (history)
\* The body is a successful envelope, bare or under one data key.
SuccessfulEnvelope(body) ==
  /\ body.kind = "object"
  /\ body.wraps \in {0, 1}
  /\ body.success = "true"
  /\ body.conversation.kind = "array"

\* The messages such bodies carry and what they make of the load, by
\* conversation.
SuccessfulLoads ==
  [id \in ConvIds |->
     { [items |-> b.conversation.items, out |-> LoadOutcome(id, b)] :
         b \in { b \in HistoryBodies(id) : SuccessfulEnvelope(b) } }]

\* C22: the step in which the history fetch of the selected conversation
\* settles with a successful envelope, bare or wrapped under a data key,
\* leaves a timeline of exactly the envelope's messages: as many, in the
\* server's order, each with the server's role and content, and no two of them
\* with the same local identifier.
C22_HistoryLoadShowsServerMessages ==
  [][ loads' # loads =>
      \A id \in {activeChatId} \cap ConvIds :
      \A load \in SuccessfulLoads[id] :
        LoadContinues(id, load.out)
        => LET items == load.items
               shown == ui'.messages
           IN  /\ Len(shown) = Len(items)
               /\ \A k \in 1..Len(items) :
                    /\ shown[k].role = items[k].role
                    /\ shown[k].content = items[k].content
               /\ \A j, k \in 1..Len(shown) : j # k => shown[j].id # shown[k].id
    ]_vars

\* C22 witness: conversation A is selected, its fetch has settled and the
\* timeline holds the two messages of its history under two identifiers.
C22_Witness ==
  /\ activeChatId = "A"
  /\ loads["A"] = 0
  /\ ~ui.loadingMessages
  /\ Len(ui.messages) = 2
  /\ ui.messages[1].role = "user" /\ ui.messages[1].content = <<"q">>
  /\ ui.messages[2].role = "assistant" /\ ui.messages[2].content = <<"r">>
  /\ ui.messages[1].id # ui.messages[2].id
  /\ ui.messages[1].of = "A" /\ ui.messages[2].of = "A"

\* The request failed, or its body holds no envelope the client recognizes
\* (null, an array, an object without the success or the conversation key, an
\* envelope under three data keys), or the envelope says success = false.
UnsuccessfulBody(body) ==
  \/ body.kind # "object"
  \/ body.success # "true"
  \/ body.conversation.kind = "missing"
  \/ body.wraps = 3

\* What such bodies make of the load, by conversation.
UnsuccessfulOutcomes ==
  [id \in ConvIds |->
     { LoadOutcome(id, b) : b \in { b \in HistoryBodies(id) : UnsuccessfulBody(b) } }]

\* C23: the step in which the history fetch of the selected conversation
\* fails, returns no recognizable envelope or returns success = false leaves
\* an empty timeline, and so does the step in which the selection is cleared.
C23_UnsuccessfulLoadEmptiesTimeline ==
  [][ /\ loads' # loads =>
           \A id \in {activeChatId} \cap ConvIds :
           \A out \in UnsuccessfulOutcomes[id] :
             LoadContinues(id, out) => ui'.messages = <<>>
      /\ (mounted /\ activeChatId # NoId /\ activeChatId' = NoId)
           => ui'.messages = <<>>
    ]_vars

\* C23 witness: after conversation A, conversation B was selected and its
\* fetch failed: the timeline is empty and the failure was announced.
C23_Witness ==
  /\ trail = <<"A", "B">>
  /\ activeChatId = "B"
  /\ loads["A"] = 0 /\ loads["B"] = 0
  /\ ui.error = "Failed to load conversation"
  /\ "conversation" \in toasts
  /\ ui.messages = <<>>
  /\ ~ui.loadingMessages

\* Timeline b holds the messages of timeline a at the same places, each with
\* its content or an extension of it, and possibly more after them.
GrowsAtEnd(a, b) ==
  /\ Len(a) <= Len(b)
  /\ \A k \in 1..Len(a) :
       /\ b[k].id = a[k].id
       /\ b[k].role = a[k].role
       /\ IsPrefix(a[k].content, b[k].content)

\* C24: a step during which a turn stays in flight and the route keeps its
\* conversation identifier only extends the timeline at its end: every
\* message stays at its place, a history load settling for that conversation
\* included.
C24_AppendOnlyWhileInFlight ==
  [][ ( /\ activeChatId' = activeChatId
        /\ \E i \in 1..Len(turns) : InFlight(turns[i]) /\ InFlight(turns'[i]) )
      => GrowsAtEnd(ui.messages, ui'.messages)
    ]_vars

\* C25: at most one turn has its stream unsettled, so at most one assistant
\* placeholder is open; and while a turn is in flight the send control starts
\* no other, whatever conversation is active by then.
C25_OnePlaceholderOpen ==
  /\ Cardinality({i \in 1..Len(turns) : turns[i].phase = "stream"}) <= 1
  /\ Cardinality({i \in 1..Len(turns) : InFlight(turns[i])}) <= 1
  /\ (\E i \in 1..Len(turns) : InFlight(turns[i])) => ~CanSubmit

\* C25 witness: a turn is streaming, another conversation has been selected
\* since it started, and a prompt is typed in.
C25_Witness ==
  \E i \in 1..Len(turns) :
    /\ turns[i].phase = "stream"
    /\ turns[i].switched
    /\ activeChatId \in ConvIds
    /\ activeChatId # turns[i].owner
    /\ Trim(ui.promptValue) # <<>>
    /\ ui.sending

\* C29: whenever the directory's own last fetch succeeded and the directory is
\* not loading, the sidebar shows one row per conversation of the list,
\* whatever the history loads did.
C29_DirectoryShownDespiteLoadFailure ==
  ( /\ listFetch = "ok"
    /\ ~ui.loading
    /\ \A i \in 1..Len(turns) : turns[i].failure # "refresh" )
  => /\ ChatHistoryView(ui).rows = ServerList
     /\ ~ChatHistoryView(ui).errorBox

\* ====================================================== ChatHistory (title)
\* The values a property of a conversation takes: absent, null, the empty
\* string, a short string, and a string longer than the title shows.
TitleValues == { Undefined, Null, Str(<<>>), Str(<<"T">>) }

SessionIdValues ==
  { Undefined, Null, Str(<<>>), Str(<<"s", "1">>),
    Str(<<"s", "2", "3", "4", "5", "6", "7", "8", "9">>) }

IdValues ==
  { Undefined, Null, Str(<<>>), Str(<<"i", "1">>),
    Str(<<"i", "2", "3", "4", "5", "6", "7", "8", "9">>) }

Conversations ==
  [id : IdValues, session_id : SessionIdValues, title : TitleValues]

\* if (v): undefined, null and '' are falsy.
Truthy(v) == v.kind = "string" /\ v.text # <<>>

\* a || b
Or(a, b) == IF Truthy(a) THEN a ELSE b

\* 'Chat ' and 'Untitled Chat'
ChatPrefix == <<"C", "h", "a", "t", " ">>

UntitledChat ==
  <<"U", "n", "t", "i", "t", "l", "e", "d", " ", "C", "h", "a", "t">>

\* A title function that prefers id to session_id.
GetChatTitleIdFirst(c) ==
  IF Truthy(c.title) THEN c.title.text
  ELSE LET identifier == Or(c.id, c.session_id) IN
       IF Truthy(identifier) THEN ChatPrefix \o Take(identifier.text, 8)
       ELSE UntitledChat

\* getChatTitle
GetChatTitle(c) ==
  IF Truthy(c.title) THEN c.title.text
  ELSE LET identifier == Or(c.session_id, c.id) IN
       IF Truthy(identifier) THEN ChatPrefix \o Take(identifier.text, 8)
       ELSE UntitledChat

\* conversations.map(...): the row of the conversation is rendered.
RenderRow ==
  /\ ~chatTitle.rendered
  /\ chatTitle' = [rendered |-> TRUE, text |-> GetChatTitle(conversation)]
  /\ UNCHANGED conversation
  /\ UNCHANGED <<svars, dvars, avars, gvars>>

\* The sidebar holds a row for some conversation.
TitleInit ==
  /\ conversation \in Conversations
  /\ chatTitle = NotRendered

TitleNext == RenderRow

TitleStart == TitleInit /\ StreamIdle /\ DashInit /\ AuthIdle /\ GuardIdle

SpecTitle == TitleStart /\ [][TitleNext]_vars

\* The property holds a non-empty string.
Present(v) == v.kind = "string" /\ Len(v.text) > 0

\* text is 'Chat ' followed by the first 8 characters of ident.
IsChatPlus(text, ident) ==
  /\ Len(text) = 5 + (IF Len(ident) < 8 THEN Len(ident) ELSE 8)
  /\ \A k \in 1..5 : text[k] = ChatPrefix[k]
  /\ \A k \in 6..Len(text) : text[k] = ident[k - 5]

\* C21: the title rendered for a conversation is its stored title when it has
\* one; otherwise 'Chat ' followed by the first 8 characters of session_id
\* when it has one, else of id when it has one; otherwise 'Untitled Chat'.
\* Every conversation gets a title (the function returns for each of them).
C21_TitleOfConversation ==
  chatTitle.rendered =>
    LET c == conversation
        text == chatTitle.text
    IN  /\ Present(c.title) => text = c.title.text
        /\ (~Present(c.title) /\ Present(c.session_id))
             => IsChatPlus(text, c.session_id.text)
        /\ (~Present(c.title) /\ ~Present(c.session_id) /\ Present(c.id))
             => IsChatPlus(text, c.id.text)
        /\ (~Present(c.title) /\ ~Present(c.session_id) /\ ~Present(c.id))
             => text = UntitledChat

\* C21 witness: a conversation without title whose session_id has 9 characters
\* and whose id differs is shown as 'Chat ' plus the first 8 of them.
C21_Witness ==
  /\ chatTitle.rendered
  /\ ~Present(conversation.title)
  /\ conversation.session_id = Str(<<"s", "2", "3", "4", "5", "6", "7", "8", "9">>)
  /\ conversation.id = Str(<<"i", "1">>)
  /\ chatTitle.text = <<"C", "h", "a", "t", " ", "s", "2", "3", "4", "5", "6", "7", "8">>

\* ================================================================ AuthGuard
\* What localStorage holds: nothing, the provider's session under its key,
\* that key with an empty value, or an entry of another kind.
StorageStates ==
  { <<>>,
    <<[key |-> SbTokenName, value |-> <<"x">>]>>,
    <<[key |-> SbTokenName, value |-> <<>>]>>,
    <<[key |-> OtherName, value |-> <<"x">>]>> }

\* hasAuthTokenInCookies: a cookie with a provider-pattern name and a
\* non-empty value (what split('=') leaves of it).
HasAuthTokenInCookies(cookies) ==
  \E k \in 1..Len(cookies) :
    IsSbTokenName(cookies[k].name) /\ UpToEquals(cookies[k].value) # <<>>

\* hasAuthTokenInStorage: a key that starts with 'sb-' and includes
\* '-auth-token', with a non-empty value.
HasAuthTokenInStorage(entries) ==
  \E k \in 1..Len(entries) :
    IsSbTokenName(entries[k].key) /\ entries[k].value # <<>>

HasToken == HasAuthTokenInCookies(jar) \/ HasAuthTokenInStorage(storage)

\* A guard that lets a stored token stand in for the session.
GuardScreenTokenSuffices(isLoading, sess, hasToken, timedOut) ==
  IF isLoading THEN "loading"
  ELSE IF sess # NoToken \/ hasToken THEN "children"
  ELSE "redirect"

\* What AuthGuard returns (lines 56-85): 'Loading workspace...', the children,
\* 'Verifying session...', or <Navigate to="/">.
GuardScreen(isLoading, sess, hasToken, timedOut) ==
  IF isLoading THEN "loading"
  ELSE IF sess # NoToken THEN "children"
  ELSE IF hasToken /\ sess = NoToken /\ ~timedOut THEN "verifying"
  ELSE IF ~hasToken \/ timedOut THEN "redirect"
  ELSE "redirect"

\* AuthGuard renders, then its effect runs if a dependency changed: the
\* cleanup clears the pending timer, and the effect starts a new one when
\* there is a token but no session, or else resets verificationTimeout.  A
\* redirect unmounts the guard, which clears the timer as well.
GuardRender ==
  /\ screen # "redirect"
  /\ LET deps == [ran |-> TRUE, hasToken |-> HasToken, session |-> session,
                  loading |-> loading]
         runs == effectDeps # deps
         waits == HasToken /\ session = NoToken /\ ~loading
         next == GuardScreen(loading, session, HasToken, verificationTimeout)
     IN  /\ screen' = next
         /\ effectDeps' = deps
         /\ timer' = IF next = "redirect" THEN FALSE
                     ELSE IF runs THEN waits ELSE timer
         /\ verificationTimeout' =
              IF runs /\ ~waits THEN FALSE ELSE verificationTimeout
  /\ UNCHANGED <<loading, storage>>
  /\ UNCHANGED <<svars, dvars, avars, tvars>>

\* The route is entered again after a redirect: a new AuthGuard is mounted.
Remount ==
  /\ screen = "redirect"
  /\ screen' = "none"
  /\ verificationTimeout' = FALSE
  /\ timer' = FALSE
  /\ effectDeps' = NoDeps
  /\ UNCHANGED <<loading, storage>>
  /\ UNCHANGED <<svars, dvars, avars, tvars>>

\* The 2000 ms timer of the effect fires.
TimerFires ==
  /\ timer
  /\ timer' = FALSE
  /\ verificationTimeout' = TRUE
  /\ UNCHANGED <<loading, storage, effectDeps, screen>>
  /\ UNCHANGED <<svars, dvars, avars, tvars>>

\* getSession() of AuthProvider has settled: finally sets loading to false.
GetSessionSettles ==
  /\ loading
  /\ loading' = FALSE
  /\ UNCHANGED <<storage, verificationTimeout, timer, effectDeps, screen>>
  /\ UNCHANGED <<svars, dvars, avars, tvars>>

\* The identity provider's client or the user changes localStorage.
StorageChanges(entries) ==
  /\ entries # storage
  /\ storage' = entries
  /\ UNCHANGED <<loading, verificationTimeout, timer, effectDeps, screen>>
  /\ UNCHANGED <<svars, dvars, avars, tvars>>

\* AuthProvider and AuthGuard after construction; localStorage holds what an
\* earlier visit left.
GuardInit ==
  /\ loading = TRUE
  /\ storage \in StorageStates
  /\ verificationTimeout = FALSE
  /\ timer = FALSE
  /\ effectDeps = NoDeps
  /\ screen = "none"

GuardNext ==
  \/ \E by \in {"login", "provider"}, t \in Tokens, acc1 \in BOOLEAN, acc2 \in BOOLEAN :
       Publish(by, t, acc1, acc2)
  \/ SignOut
  \/ \E name \in {AuthTokenName, SbTokenName, OtherName} : ClearCookie(name)
  \/ \E entries \in StorageStates : StorageChanges(entries)
  \/ GetSessionSettles
  \/ GuardRender
  \/ TimerFires
  \/ Remount

\* The guard on a same-origin https deployment (it reads neither the origins
\* nor the protocol); the stream client and the page are at rest.
GuardStart ==
  /\ GuardInit
  /\ AuthInit /\ ~crossOrigin /\ pageHttps
  /\ StreamIdle /\ DashInit /\ TitleIdle

SpecGuard == GuardStart /\ [][GuardNext]_vars

\* C30: a render of AuthGuard gives the protected page only when loading is
\* false and there is a session; without a session it gives a wait screen or
\* the redirect to the login route, whatever cookies and localStorage hold and
\* whether or not the verification has timed out.
C30_ProtectedPageNeedsSession ==
  [][ GuardRender =>
        /\ screen' = "children" => (~loading /\ session # NoToken)
        /\ session = NoToken => screen' \in {"loading", "verifying", "redirect"}
    ]_vars

\* C30 witness: nobody is signed in, a token cookie is still there, the
\* verification has timed out and the guard has redirected.
C30_Witness ==
  /\ screen = "redirect"
  /\ session = NoToken
  /\ ~loading
  /\ HasAuthTokenInCookies(jar)
  /\ verificationTimeout

====
